---- MODULE Spec2Model ----
(***************************************************************************)
(* Model of amtflash.py: the AMTFlasher session (constructor handshake and *)
(* public methods), KWPInterface and CANInterface, over a byte transport   *)
(* (FTDIBus) whose input queue the device fills asynchronously.            *)
(*                                                                         *)
(* Every transport call (read, write, read_EE, write_EE) is one step, so   *)
(* the device can place bytes between any two calls of an operation.       *)
(***************************************************************************)
EXTENDS Naturals, Sequences, FiniteSets

VARIABLES
    pc,             \* position of the calling thread in __init__ or in a method
    op,             \* the running method and its arguments
    nops,           \* methods called so far on this session
    nframes,        \* frames written so far; a frame's number tags its reply
    rx,             \* transport input not yet read: [b: byte, of: frame number]
    dev,            \* reply bytes the device has still to place: frame numbers
    log,            \* transport calls of the running operation, in order
    write_bitmask,  \* self._bus._write_bitmask
    read_bitmask,   \* self._bus._read_bitmask
    magic_num,      \* _hanshake: magic_num
    bitmasks,       \* _hanshake: bitmasks
    response,       \* _hanshake: response; methods: data
    ok,             \* ok, the status read
    str_len,        \* get_version_str: str_len
    kwp,            \* self.kwp exists
    can,            \* self.can exists
    hsErr,          \* what _hanshake raised ("none": nothing so far)
    err,            \* what the running / last method raised
    result,         \* what the last method returned
    twin            \* a second session run side by side on the same calls
                    \* and answers: what it holds that is computed from masks

vars == <<pc, op, nops, nframes, rx, dev, log, write_bitmask, read_bitmask,
          magic_num, bitmasks, response, ok, str_len, kwp, can, hsErr, err,
          result, twin>>

\* ------------------------------------------------------------------ bounds

MaxStale == 1       \* bytes pending in the input when an analysis starts
MaxReply == 2       \* bytes the device places in answer to one frame
MaxOps == 2         \* methods called on one session

\* ------------------------------------------------------ values and helpers

Byte == 0..255

RECURSIVE Xor(_, _)
Xor(a, b) ==
    IF a = 0 THEN b
    ELSE IF b = 0 THEN a
    ELSE (((a % 2) + (b % 2)) % 2) + (2 * Xor(a \div 2, b \div 2))

\* Python values: a type name and a sequence of numbers.
PyNone == [t |-> "None", v |-> <<>>]
PyInt(n) == [t |-> "int", v |-> <<n>>]
PyBool(b) == [t |-> "bool", v |-> <<IF b THEN 1 ELSE 0>>]
PyBytes(s) == [t |-> "bytes", v |-> s]
PyStr(s) == [t |-> "str", v |-> s]

\* Python ==: an int and a str are never equal.
PyEq(x, y) == x.t = y.t /\ x.v = y.v

CharU == PyStr(<<85>>)

\* ok[0] == 'U' where ok is what read(1) returned (a bytearray: ok[0] is an int)
StatusIsU(b) == PyEq(PyInt(b), CharU)

Bytes(s) == [i \in 1..Len(s) |-> s[i].b]
Tags(s) == [i \in 1..Len(s) |-> s[i].of]
Min(a, b) == IF a < b THEN a ELSE b

FitsByte_Any(n) == TRUE

\* int.to_bytes(1, ...) raises OverflowError outside 0..255
FitsByte(n) == n \in Byte

\* --------------------------------------------------------- the environment

MagicReads == {<<51, 0>>, <<0, 51>>}         \* read_EE(0x1000, 2)
MaskBytes == {15, 170}                       \* bytes of read_EE(0x2000, 2)
ReplyBytes == {1, 51, 85}                    \* bytes the device answers with
\* input left over from before: up to MaxStale bytes 0x55, answering no frame
StaleInputs == {[i \in 1..n |-> [b |-> 85, of |-> 0]] : n \in 0..MaxStale}

\* log entries
EERead(addr, n, got) ==
    [call |-> "read_EE", addr |-> addr, n |-> n, data |-> got, tags |-> <<>>,
     site |-> "ee", id |-> 0]
EEWrite(addr, data) ==
    [call |-> "write_EE", addr |-> addr, n |-> Len(data), data |-> data,
     tags |-> <<>>, site |-> "ee", id |-> 0]
Read(n, got, site) ==
    [call |-> "read", addr |-> 0, n |-> n, data |-> Bytes(got),
     tags |-> Tags(got), site |-> site, id |-> 0]
\* a read of _purge: the bytes are dropped, the log keeps how many came
PurgeRead(got) ==
    [call |-> "read", addr |-> 0, n |-> 1, data |-> [i \in 1..Len(got) |-> 0],
     tags |-> <<>>, site |-> "purge", id |-> 0]
Write(frame, id) ==
    [call |-> "write", addr |-> 0, n |-> Len(frame), data |-> frame,
     tags |-> <<>>, site |-> "frame", id |-> id]

\* FTDIBus.read(n): what is pending, at most n bytes
Take(n) == SubSeq(rx, 1, Min(n, Len(rx)))
Rest(n) == SubSeq(rx, Min(n, Len(rx)) + 1, Len(rx))

NoOp == [name |-> "none", byte |-> 0, delay |-> 0, pulse |-> 0, baud |-> 0,
         high |-> FALSE, data |-> <<>>]

\* the device owes k bytes in answer to frame number id
Owes(k, id) == [i \in 1..k |-> id]

\* ------------------------------------------------------------ the handshake

\* _write_bitmask / _read_bitmask before _hanshake assigns them: no byte
Unset == 256

\* x ^= 0xFF; x ^= 0x33
Transform_OneXor(x) == Xor(x, 255)
Transform(x) == Xor(Xor(x, 255), 51)

\* magic_num[0] != 0x33
MagicBad_SecondByte(m) == m[2] # 51
MagicBad(m) == m[1] # 51

\* ok[0] != 0x33
AuthBad(b) == b # 51

StoredMasks_Swapped(bm) == [w |-> bm[2], r |-> bm[1]]

\* self._bus._write_bitmask = bitmasks[0]; self._bus._read_bitmask = bitmasks[1]
StoredMasks(bm) == [w |-> bm[1], r |-> bm[2]]

\* read_EE(0x2000, 2) of the second session: the same bytes, or those of
\* another device
TwinReads(other, bm) ==
    IF other THEN {<<w, r>> : w \in MaskBytes, r \in MaskBytes} ELSE {bm}

\* the second session before its handshake, and after it read bm
TwinNew(other) ==
    [other |-> other, bitmasks |-> <<>>, write_bitmask |-> Unset,
     read_bitmask |-> Unset, security |-> <<>>]
TwinOf(other, bm) ==
    [other |-> other, bitmasks |-> bm, write_bitmask |-> StoredMasks(bm).w,
     read_bitmask |-> StoredMasks(bm).r, security |-> <<>>]

\* __init__ after self._hanshake(): an exception leaves __init__, otherwise
\* self.kwp and self.can are created and the caller gets the instance
AfterHandshake_Swallow(e) == [pc |-> "idle", sub |-> TRUE]
AfterHandshake(e) ==
    IF e = "none" THEN [pc |-> "idle", sub |-> TRUE]
    ELSE [pc |-> "raised", sub |-> FALSE]

\* _purge: while len(readed) > 0
PurgeAgain_Once(readed) == FALSE
PurgeAgain_Full(readed) == Len(readed) > 1
PurgeAgain(readed) == Len(readed) > 0

\* _hanshake raises e (or returns, e = "none"), and __init__ goes on
HsEnd(e) ==
    /\ hsErr' = e
    /\ pc' = AfterHandshake(e).pc
    /\ kwp' = AfterHandshake(e).sub
    /\ can' = AfterHandshake(e).sub

HsReadMagic ==
    /\ pc = "hs_magic"
    /\ \E m \in MagicReads :
        /\ magic_num' = m
        /\ log' = Append(log, EERead(4096, 2, m))
        /\ IF MagicBad(m)
           THEN HsEnd("InvalidMagic")
           ELSE pc' = "hs_masks" /\ UNCHANGED <<twin, hsErr, kwp, can>>
    /\ UNCHANGED <<twin, op, nops, nframes, rx, dev, write_bitmask, read_bitmask,
                   bitmasks, response, ok, str_len, err, result>>

HsReadBitmasks ==
    /\ pc = "hs_masks"
    /\ \E w \in MaskBytes, r \in MaskBytes :
        /\ bitmasks' = <<w, r>>
        /\ write_bitmask' = StoredMasks(<<w, r>>).w
        /\ read_bitmask' = StoredMasks(<<w, r>>).r
        /\ log' = Append(log, EERead(8192, 2, <<w, r>>))
        /\ \E bm \in TwinReads(twin.other, <<w, r>>) :
            twin' = [twin EXCEPT !.bitmasks = bm,
                                 !.write_bitmask = StoredMasks(bm).w,
                                 !.read_bitmask = StoredMasks(bm).r]
    /\ pc' = "hs_purge1"
    /\ UNCHANGED <<op, nops, nframes, rx, dev, magic_num, response, ok,
                   str_len, kwp, can, hsErr, err, result>>

AfterPurge_Swapped(p) ==
    CASE p = "hs_purge1" -> "hs_wcks"
      [] p = "hs_purge2" -> "hs_wchal"
      [] p = "op_purge" -> "op_write"

\* what follows each call of self._purge()
AfterPurge(p) ==
    CASE p = "hs_purge1" -> "hs_wchal"
      [] p = "hs_purge2" -> "hs_wcks"
      [] p = "op_purge" -> "op_write"

\* one self._bus.read(1) of _purge and the loop's test
Purge ==
    /\ pc \in {"hs_purge1", "hs_purge2", "op_purge"}
    /\ log' = Append(log, PurgeRead(Take(1)))
    /\ rx' = Rest(1)
    /\ pc' = IF PurgeAgain(Take(1)) THEN pc ELSE AfterPurge(pc)
    /\ UNCHANGED <<twin, op, nops, nframes, dev, write_bitmask, read_bitmask,
                   magic_num, bitmasks, response, ok, str_len, kwp, can,
                   hsErr, err, result>>

\* self._bus.write(frame); the device will answer with up to MaxReply bytes
BusWrite(frame) ==
    /\ nframes' = nframes + 1
    /\ log' = Append(log, Write(frame, nframes + 1))
    /\ \E k \in 0..MaxReply : dev' = dev \o Owes(k, nframes + 1)

HsWriteChallenge ==
    /\ pc = "hs_wchal"
    /\ BusWrite(<<33, 85>>)
    /\ pc' = "hs_rchal"
    /\ UNCHANGED <<twin, op, nops, rx, write_bitmask, read_bitmask, magic_num,
                   bitmasks, response, ok, str_len, kwp, can, hsErr, err,
                   result>>

\* response = read(2); the loop transforms the bytes that were read;
\* response[0], response[1] of line 31 raise IndexError on a short read
HsReadChallenge ==
    /\ pc = "hs_rchal"
    /\ log' = Append(log, Read(2, Take(2), "reply"))
    /\ rx' = Rest(2)
    /\ response' = [i \in 1..Len(Take(2)) |-> Transform(Take(2)[i].b)]
    /\ IF Len(Take(2)) < 2
       THEN HsEnd("IndexError")
       ELSE pc' = "hs_wresp" /\ UNCHANGED <<twin, hsErr, kwp, can>>
    /\ UNCHANGED <<twin, op, nops, nframes, dev, write_bitmask, read_bitmask,
                   magic_num, bitmasks, ok, str_len, err, result>>

HsWriteResponse ==
    /\ pc = "hs_wresp"
    /\ BusWrite(<<33, 86, response[1], response[2]>>)
    /\ pc' = "hs_rauth"
    /\ UNCHANGED <<twin, op, nops, rx, write_bitmask, read_bitmask, magic_num,
                   bitmasks, response, ok, str_len, kwp, can, hsErr, err,
                   result>>

HsReadAuth ==
    /\ pc = "hs_rauth"
    /\ log' = Append(log, Read(1, Take(1), "reply"))
    /\ rx' = Rest(1)
    /\ ok' = Bytes(Take(1))
    /\ IF Take(1) = <<>>
       THEN HsEnd("IndexError")
       ELSE IF AuthBad(Take(1)[1].b)
       THEN HsEnd("HandshakeFailed")
       ELSE pc' = "hs_wee" /\ UNCHANGED <<twin, hsErr, kwp, can>>
    /\ UNCHANGED <<twin, op, nops, nframes, dev, write_bitmask, read_bitmask,
                   magic_num, bitmasks, response, str_len, err, result>>

HsWriteEE ==
    /\ pc = "hs_wee"
    /\ log' = Append(log, EEWrite(20481, <<>>))
    /\ pc' = "hs_purge2"
    /\ UNCHANGED <<twin, op, nops, nframes, rx, dev, write_bitmask, read_bitmask,
                   magic_num, bitmasks, response, ok, str_len, kwp, can,
                   hsErr, err, result>>

HsWriteChecksum ==
    /\ pc = "hs_wcks"
    /\ BusWrite(<<38, 0, 1, 0, 0>>)
    /\ pc' = "hs_rcks"
    /\ UNCHANGED <<twin, op, nops, rx, write_bitmask, read_bitmask, magic_num,
                   bitmasks, response, ok, str_len, kwp, can, hsErr, err,
                   result>>

\* ok = read(1); if ok[0] != 'U': raise; else _hanshake returns and __init__
\* creates the sub-interfaces
HsReadChecksum ==
    /\ pc = "hs_rcks"
    /\ log' = Append(log, Read(1, Take(1), "reply"))
    /\ rx' = Rest(1)
    /\ ok' = Bytes(Take(1))
    /\ IF Take(1) = <<>>
       THEN HsEnd("IndexError")
       ELSE IF ~StatusIsU(Take(1)[1].b)
       THEN HsEnd("ChecksumFailed")
       ELSE HsEnd("none")
    /\ UNCHANGED <<twin, op, nops, nframes, dev, write_bitmask, read_bitmask,
                   magic_num, bitmasks, response, str_len, err, result>>

\* the device places the next byte it owes into the transport's input
Deliver ==
    /\ dev # <<>>
    /\ \E b \in ReplyBytes : rx' = Append(rx, [b |-> b, of |-> Head(dev)])
    /\ dev' = Tail(dev)
    /\ UNCHANGED <<twin, pc, op, nops, nframes, log, write_bitmask, read_bitmask,
                   magic_num, bitmasks, response, ok, str_len, kwp, can,
                   hsErr, err, result>>

\* ----------------------------------------------------------- the methods

Zeros(n) == [i \in 1..n |-> 0]

Delays == {10, 256}                     \* delay, delay_between_bytes
ByteArgs == {85, 256}                   \* byte
Bauds == {5, 3906, 3907, 2000000}       \* baudrate
Pulses == {1, 256}                      \* init_pulse_delay
DataArgs == {<<>>, <<1, 2>>, Zeros(256)}
SecurityReads == {Zeros(8), <<1, 2, 3, 4, 5, 6, 7, 255>>}  \* read_EE(0x5000, 8)

StatusOps == {"set_delay", "disable_flash_write", "set_pin_0", "set_pin_2",
              "send_byte", "reset_controller", "enable_controller"}

LE16_Big(n) == <<n \div 256, n % 256>>

\* n.to_bytes(2, 'little')
LE16(n) == <<n % 256, n \div 256>>

\* delay = int(1000000 / baudrate)
BaudDelay(baudrate) == 1000000 \div baudrate

Level(high) == IF high THEN 1 ELSE 0

\* every to_bytes of the method's frame expression succeeds
FrameFits(o) ==
    CASE o.name = "set_delay" -> FitsByte(o.delay)
      [] o.name = "send_byte" -> FitsByte(o.byte)
      [] o.name = "send_byte_custom_baud" ->
            FitsByte(BaudDelay(o.baud)) /\ FitsByte(o.byte)
      [] o.name = "send_bytes" ->
            Len(o.data) < 65536 /\ FitsByte(o.delay)
      [] o.name = "send_fast_init" ->
            FitsByte(Len(o.data)) /\ FitsByte(o.delay) /\ FitsByte(o.pulse)
      [] OTHER -> TRUE

\* the bytes the method passes to self._bus.write
Frame(o) ==
    CASE o.name = "get_version" -> <<49>>
      [] o.name = "get_version_str" -> <<34>>
      [] o.name = "set_delay" -> <<36, o.delay>>
      [] o.name = "disable_flash_write" -> <<32>>
      [] o.name = "set_pin_0" -> <<39, 0, Level(o.high)>>
      [] o.name = "set_pin_2" -> <<39, 1, Level(o.high)>>
      [] o.name = "unknown_0x2a" -> <<42>>
      [] o.name = "send_byte" -> <<37, 4, o.byte>>
      [] o.name = "send_byte_custom_baud" ->
            <<37, 3, BaudDelay(o.baud), o.byte>>
      [] o.name = "send_bytes" ->
            <<37, 2>> \o LE16(Len(o.data)) \o <<o.delay>> \o o.data
      [] o.name = "send_fast_init" ->
            <<37, 1, Len(o.data), o.delay, o.pulse>> \o o.data
      [] o.name = "reset_controller" -> <<48, 1>>
      [] o.name = "enable_controller" -> <<48, 9>>

\* the method reads after its write
ReadsReply(name) ==
    name \notin {"send_byte_custom_baud", "send_bytes", "send_fast_init"}

\* a method is entered: its frame starts with self._purge()
Enter(o) ==
    /\ pc = "idle"
    /\ nops < MaxOps
    /\ op' = o
    /\ nops' = nops + 1
    /\ pc' = "op_purge"
    /\ log' = <<>>
    /\ response' = <<>>
    /\ ok' = <<>>
    /\ str_len' = 0
    /\ err' = "none"
    /\ result' = PyNone
    /\ twin' = [twin EXCEPT !.security = <<>>]
    /\ UNCHANGED <<nframes, rx, dev, write_bitmask, read_bitmask, magic_num,
                   bitmasks, kwp, can, hsErr>>

get_version ==
    /\ pc = "idle"
    /\ Enter([NoOp EXCEPT !.name = "get_version"])
get_version_str ==
    /\ pc = "idle"
    /\ Enter([NoOp EXCEPT !.name = "get_version_str"])
set_delay ==
    /\ pc = "idle"
    /\ \E d \in Delays : Enter([NoOp EXCEPT !.name = "set_delay", !.delay = d])
disable_flash_write ==
    /\ pc = "idle"
    /\ Enter([NoOp EXCEPT !.name = "disable_flash_write"])
set_pin_0 ==
    /\ pc = "idle"
    /\ \E h \in BOOLEAN : Enter([NoOp EXCEPT !.name = "set_pin_0", !.high = h])
set_pin_2 ==
    /\ pc = "idle"
    /\ \E h \in BOOLEAN : Enter([NoOp EXCEPT !.name = "set_pin_2", !.high = h])
unknown_0x2a ==
    /\ pc = "idle"
    /\ Enter([NoOp EXCEPT !.name = "unknown_0x2a"])

send_byte ==
    /\ kwp
    /\ \E b \in ByteArgs : Enter([NoOp EXCEPT !.name = "send_byte", !.byte = b])
send_byte_custom_baud ==
    /\ kwp
    /\ \E b \in ByteArgs, r \in Bauds :
        Enter([NoOp EXCEPT !.name = "send_byte_custom_baud", !.byte = b,
                           !.baud = r])
send_bytes ==
    /\ kwp
    /\ \E s \in DataArgs, d \in Delays :
        Enter([NoOp EXCEPT !.name = "send_bytes", !.data = s, !.delay = d])
send_fast_init ==
    /\ kwp
    /\ \E s \in DataArgs, d \in Delays, p \in Pulses :
        Enter([NoOp EXCEPT !.name = "send_fast_init", !.data = s, !.delay = d,
                           !.pulse = p])

reset_controller ==
    /\ can
    /\ Enter([NoOp EXCEPT !.name = "reset_controller"])
enable_controller ==
    /\ can
    /\ Enter([NoOp EXCEPT !.name = "enable_controller"])

\* the frame expression is evaluated (to_bytes may raise) and written
WriteFrame ==
    /\ pc = "op_write"
    /\ IF ~FrameFits(op)
       THEN /\ err' = "OverflowError"
            /\ pc' = "idle"
            /\ UNCHANGED <<twin, nframes, log, dev>>
       ELSE /\ BusWrite(Frame(op))
            /\ pc' = IF ReadsReply(op.name) THEN "op_read" ELSE "idle"
            /\ err' = err
    /\ UNCHANGED <<twin, op, nops, rx, write_bitmask, read_bitmask, magic_num,
                   bitmasks, response, ok, str_len, kwp, can, hsErr, result>>

\* ok = read(1); return ok[0] == 'U'
ReadStatus ==
    /\ pc = "op_read"
    /\ op.name \in StatusOps
    /\ log' = Append(log, Read(1, Take(1), "reply"))
    /\ rx' = Rest(1)
    /\ ok' = Bytes(Take(1))
    /\ IF Take(1) = <<>>
       THEN err' = "IndexError" /\ result' = result
       ELSE err' = err /\ result' = PyBool(StatusIsU(Take(1)[1].b))
    /\ pc' = "idle"
    /\ UNCHANGED <<twin, op, nops, nframes, dev, write_bitmask, read_bitmask,
                   magic_num, bitmasks, response, str_len, kwp, can, hsErr>>

\* unknown_0x2a: ok = read(1); return ok[0]
ReadUnknown ==
    /\ pc = "op_read"
    /\ op.name = "unknown_0x2a"
    /\ log' = Append(log, Read(1, Take(1), "reply"))
    /\ rx' = Rest(1)
    /\ ok' = Bytes(Take(1))
    /\ IF Take(1) = <<>>
       THEN err' = "IndexError" /\ result' = result
       ELSE err' = err /\ result' = PyInt(Take(1)[1].b)
    /\ pc' = "idle"
    /\ UNCHANGED <<twin, op, nops, nframes, dev, write_bitmask, read_bitmask,
                   magic_num, bitmasks, response, str_len, kwp, can, hsErr>>

BigEndian_Little(data) == data[1] + data[2] * 256

\* data[1] + (data[0] << 8)
BigEndian(data) == data[2] + data[1] * 256

\* get_version: data = read(2); return data[1] + (data[0] << 8)
ReadVersion ==
    /\ pc = "op_read"
    /\ op.name = "get_version"
    /\ log' = Append(log, Read(2, Take(2), "reply"))
    /\ rx' = Rest(2)
    /\ response' = Bytes(Take(2))
    /\ IF Len(Take(2)) < 2
       THEN err' = "IndexError" /\ result' = result
       ELSE err' = err /\ result' = PyInt(BigEndian(Bytes(Take(2))))
    /\ pc' = "idle"
    /\ UNCHANGED <<twin, op, nops, nframes, dev, write_bitmask, read_bitmask,
                   magic_num, bitmasks, ok, str_len, kwp, can, hsErr>>

\* get_version_str: str_len = read(1)[0]
ReadStrLen ==
    /\ pc = "op_read"
    /\ op.name = "get_version_str"
    /\ log' = Append(log, Read(1, Take(1), "reply"))
    /\ rx' = Rest(1)
    /\ IF Take(1) = <<>>
       THEN err' = "IndexError" /\ pc' = "idle" /\ str_len' = str_len
       ELSE err' = err /\ pc' = "op_rstr" /\ str_len' = Take(1)[1].b
    /\ UNCHANGED <<twin, op, nops, nframes, dev, write_bitmask, read_bitmask,
                   magic_num, bitmasks, response, ok, kwp, can, hsErr, result>>

\* bytes.decode('utf-8') of ASCII bytes: the code points are the bytes; a
\* byte 0xF8..0xFF starts no UTF-8 sequence
Utf8Valid(s) == \A i \in 1..Len(s) : s[i] < 128

\* get_version_str: data = read(str_len); return data.decode('utf-8')
ReadStr ==
    /\ pc = "op_rstr"
    /\ log' = Append(log, Read(str_len, Take(str_len), "reply"))
    /\ rx' = Rest(str_len)
    /\ response' = Bytes(Take(str_len))
    /\ IF Utf8Valid(Bytes(Take(str_len)))
       THEN err' = err /\ result' = PyStr(Bytes(Take(str_len)))
       ELSE err' = "UnicodeDecodeError" /\ result' = result
    /\ pc' = "idle"
    /\ UNCHANGED <<twin, op, nops, nframes, dev, write_bitmask, read_bitmask,
                   magic_num, bitmasks, ok, str_len, kwp, can, hsErr>>

\* result[i] = data[i] ^ self._bus._write_bitmask, on a bus holding masks w, r
UnmaskWith_ReadMask(data, w, r) == [i \in 1..8 |-> Xor(data[i], r)]
UnmaskWith(data, w, r) == [i \in 1..8 |-> Xor(data[i], w)]

Unmask_ReadMask(data) == [i \in 1..8 |-> Xor(data[i], read_bitmask)]
Unmask(data) == UnmaskWith(data, write_bitmask, read_bitmask)

\* get_security_num: one read_EE and the loop over its 8 bytes
get_security_num ==
    /\ pc = "idle"
    /\ nops < MaxOps
    /\ \E raw \in SecurityReads :
        /\ log' = <<EERead(20480, 8, raw)>>
        /\ response' = raw
        /\ result' = PyBytes(Unmask(raw))
        /\ twin' = [twin EXCEPT !.security =
                        UnmaskWith(raw, twin.write_bitmask, twin.read_bitmask)]
    /\ op' = [NoOp EXCEPT !.name = "get_security_num"]
    /\ nops' = nops + 1
    /\ ok' = <<>>
    /\ str_len' = 0
    /\ err' = "none"
    /\ UNCHANGED <<pc, nframes, rx, dev, write_bitmask, read_bitmask,
                   magic_num, bitmasks, kwp, can, hsErr>>

VoltageReads == {<<1, 0>>, <<0, 1>>, <<255, 255>>}    \* read_EE(0x3000, 0x2)
UsageReads == {<<7>>}                                 \* read_EE(0x6000, 0x1)
CertReads == {Zeros(512)}                             \* read_EE(0x4000, 0x200)

\* value / 52.01 as the fraction value * 100 / 5201 (Python rounds it to the
\* nearest double)
PyFloat(num, den) == [t |-> "float", v |-> <<num, den>>]
Volts(value) == PyFloat(value * 100, 5201)

\* a call of the bus that is neither a read nor a write of bytes
LineCall(name, args) ==
    [call |-> name, addr |-> 0, n |-> 0, data |-> args, tags |-> <<>>,
     site |-> "line", id |-> 0]

\* a method that makes one bus call and returns: no purge, no frame
Direct(name, entry, data, res) ==
    /\ pc = "idle"
    /\ nops < MaxOps
    /\ op' = [NoOp EXCEPT !.name = name]
    /\ nops' = nops + 1
    /\ log' = <<entry>>
    /\ response' = data
    /\ result' = res
    /\ ok' = <<>>
    /\ str_len' = 0
    /\ err' = "none"
    /\ twin' = [twin EXCEPT !.security = <<>>]
    /\ UNCHANGED <<pc, nframes, rx, dev, write_bitmask, read_bitmask,
                   magic_num, bitmasks, kwp, can, hsErr>>

\* data = read_EE(0x3000, 0x2); value = data[1] + (data[0] << 8)
get_voltage ==
    /\ pc = "idle"
    /\ \E data \in VoltageReads :
        Direct("get_voltage", EERead(12288, 2, data), data,
               Volts(BigEndian(data)))

get_usages ==
    /\ pc = "idle"
    /\ \E data \in UsageReads :
        Direct("get_usages", EERead(24576, 1, data), data, PyInt(data[1]))

get_cert ==
    /\ pc = "idle"
    /\ \E data \in CertReads :
        Direct("get_cert", EERead(16384, 512, data), data, PyBytes(data))

set_baudrate ==
    /\ kwp
    /\ Direct("set_baudrate", LineCall("set_baudrate", <<10400>>), <<>>, PyNone)

set_line_property ==
    /\ kwp
    /\ Direct("set_line_property",
              LineCall("set_line_property", <<8, 0, 0, 0>>), <<>>, PyNone)

set_dtr ==
    /\ kwp
    /\ \E state \in BOOLEAN :
        Direct("set_dtr", LineCall("set_dtr", <<Level(state)>>), <<>>, PyNone)

set_rts ==
    /\ kwp
    /\ \E state \in BOOLEAN :
        Direct("set_rts", LineCall("set_rts", <<Level(state)>>), <<>>, PyNone)

\* AMTFlasher(...) is being constructed: the bus is open, _hanshake starts
InitNew ==
    /\ pc = "hs_magic"
    /\ op = NoOp
    /\ nops = 0
    /\ nframes = 0
    /\ rx \in StaleInputs
    /\ dev = <<>>
    /\ log = <<>>
    /\ write_bitmask = Unset
    /\ read_bitmask = Unset
    /\ magic_num = <<>>
    /\ bitmasks = <<>>
    /\ response = <<>>
    /\ ok = <<>>
    /\ str_len = 0
    /\ kwp = FALSE
    /\ can = FALSE
    /\ hsErr = "none"
    /\ err = "none"
    /\ result = PyNone

\* an AMTFlasher instance as __init__ leaves it when _hanshake returns: the
\* masks stored from EEPROM 0x2000, kwp and can created, three frames written
InitSession ==
    /\ pc = AfterHandshake("none").pc
    /\ op = NoOp
    /\ nops = 0
    /\ nframes = 3
    /\ rx \in StaleInputs
    /\ dev = <<>>
    /\ log = <<>>
    /\ magic_num \in {m \in MagicReads : ~MagicBad(m)}
    /\ bitmasks \in {<<w, r>> : w \in MaskBytes, r \in MaskBytes}
    /\ write_bitmask = StoredMasks(bitmasks).w
    /\ read_bitmask = StoredMasks(bitmasks).r
    /\ response = <<>>
    /\ ok = <<>>
    /\ str_len = 0
    /\ kwp = AfterHandshake("none").sub
    /\ can = AfterHandshake("none").sub
    /\ hsErr = "none"
    /\ err = "none"
    /\ result = PyNone

\* the second session is on the same device
Init ==
    \/ InitNew /\ twin = TwinNew(FALSE)
    \/ InitSession /\ twin = TwinOf(FALSE, bitmasks)

\* the second session is on a device whose EEPROM 0x2000 may differ
InitPair ==
    \/ InitNew /\ twin = TwinNew(TRUE)
    \/ InitSession /\ \E bm \in TwinReads(TRUE, bitmasks) : twin = TwinOf(TRUE, bm)

Next ==
    \/ HsReadMagic
    \/ HsReadBitmasks
    \/ Purge
    \/ HsWriteChallenge
    \/ HsReadChallenge
    \/ HsWriteResponse
    \/ HsReadAuth
    \/ HsWriteEE
    \/ HsWriteChecksum
    \/ HsReadChecksum
    \/ Deliver
    \/ get_version
    \/ get_version_str
    \/ set_delay
    \/ disable_flash_write
    \/ set_pin_0
    \/ set_pin_2
    \/ unknown_0x2a
    \/ send_byte
    \/ send_byte_custom_baud
    \/ send_bytes
    \/ send_fast_init
    \/ reset_controller
    \/ enable_controller
    \/ WriteFrame
    \/ ReadStatus
    \/ ReadUnknown
    \/ ReadVersion
    \/ ReadStrLen
    \/ ReadStr
    \/ get_security_num
    \/ get_voltage
    \/ get_usages
    \/ get_cert
    \/ set_baudrate
    \/ set_line_property
    \/ set_dtr
    \/ set_rts

Spec == Init /\ [][Next]_vars

\* the calling thread is synchronous: a _purge loop that can read does read
SpecLive == Init /\ [][Next]_vars /\ WF_vars(Purge)

\* two sessions side by side
SpecPair == InitPair /\ [][Next]_vars

\* ----------------------------------------------- the challenge, every byte

\* _hanshake just after write(b'\x21\x55'), the device having placed two
\* bytes r0, r1 in answer: every pair of bytes
InitChallenge ==
    /\ pc = "hs_rchal"
    /\ op = NoOp
    /\ nops = 0
    /\ nframes = 1
    /\ \E r0 \in Byte, r1 \in Byte :
        rx = <<[b |-> r0, of |-> 1], [b |-> r1, of |-> 1]>>
    /\ dev = <<>>
    /\ magic_num = <<51, 0>>
    /\ bitmasks = <<170, 15>>
    /\ write_bitmask = StoredMasks(bitmasks).w
    /\ read_bitmask = StoredMasks(bitmasks).r
    /\ log = <<EERead(4096, 2, magic_num), EERead(8192, 2, bitmasks),
               PurgeRead(<<>>), Write(<<33, 85>>, 1)>>
    /\ response = <<>>
    /\ ok = <<>>
    /\ str_len = 0
    /\ kwp = FALSE
    /\ can = FALSE
    /\ hsErr = "none"
    /\ err = "none"
    /\ result = PyNone
    /\ twin = TwinOf(FALSE, bitmasks)

NextChallenge == HsReadChallenge \/ HsWriteResponse

SpecChallenge == InitChallenge /\ [][NextChallenge]_vars

\* ------------------------------------------------------------------ claims

Last(s) == s[Len(s)]

\* bit k of x, and XOR of two bytes bit by bit
Bit(x, k) == (x \div (2 ^ k)) % 2
BitXor(a, b) ==
    ((Bit(a, 0) + Bit(b, 0)) % 2) + 2 * ((Bit(a, 1) + Bit(b, 1)) % 2)
    + 4 * ((Bit(a, 2) + Bit(b, 2)) % 2) + 8 * ((Bit(a, 3) + Bit(b, 3)) % 2)
    + 16 * ((Bit(a, 4) + Bit(b, 4)) % 2) + 32 * ((Bit(a, 5) + Bit(b, 5)) % 2)
    + 64 * ((Bit(a, 6) + Bit(b, 6)) % 2) + 128 * ((Bit(a, 7) + Bit(b, 7)) % 2)

HsPcs == {"hs_magic", "hs_masks", "hs_purge1", "hs_wchal", "hs_rchal",
          "hs_wresp", "hs_rauth", "hs_wee", "hs_purge2", "hs_wcks", "hs_rcks"}

\* __init__ has ended (returned or raised) and no method has run since:
\* log holds the handshake's transport calls
HsFinished == pc \in {"idle", "raised"} /\ nops = 0 /\ log # <<>>

\* the reads of the log whose bytes the caller uses
ReplyReads == SelectSeq(log, LAMBDA e : e.call = "read" /\ e.site = "reply")

\* the session is ready: __init__ returned with both sub-interfaces
Ready == pc \notin HsPcs /\ pc # "raised" /\ hsErr = "none" /\ kwp /\ can

\* the transport answered the whole handshake as a valid device does
ValidAnswers ==
    /\ magic_num # <<>> /\ magic_num[1] = 51
    /\ Len(bitmasks) = 2
    /\ Len(ReplyReads) = 3
    /\ Len(ReplyReads[1].data) = 2
    /\ ReplyReads[2].data = <<51>>
    /\ ReplyReads[3].data = <<85>>

\* C1: a handshake whose reads were answered 0x33 (magic), any two mask
\* bytes, any two challenge bytes, 0x33 (authentication) and 0x55 (checksum
\* mode) ends without error with the session ready and kwp and can created.
C1_HandshakeSucceeds ==
    (HsFinished /\ ValidAnswers) => (Ready /\ pc = "idle")

\* C2: a handshake that ended after a wrong checked byte raised the error of
\* that byte (magic byte # 0x33: InvalidMagic; authentication reply # 0x33:
\* HandshakeFailed; checksum reply # 0x55: ChecksumFailed), the constructor
\* raised, and neither kwp nor can exists.
C2_HandshakeFails ==
    HsFinished =>
        /\ (magic_num[1] # 51) =>
              (hsErr = "InvalidMagic" /\ pc = "raised" /\ ~kwp /\ ~can)
        /\ (/\ Len(ReplyReads) = 2
            /\ Len(ReplyReads[1].data) = 2
            /\ Len(ReplyReads[2].data) = 1
            /\ ReplyReads[2].data[1] # 51) =>
              (hsErr = "HandshakeFailed" /\ pc = "raised" /\ ~kwp /\ ~can)
        /\ (/\ Len(ReplyReads) = 3
            /\ Len(ReplyReads[3].data) = 1
            /\ ReplyReads[3].data[1] # 85) =>
              (hsErr = "ChecksumFailed" /\ pc = "raised" /\ ~kwp /\ ~can)
        /\ (pc = "raised") => (hsErr # "none" /\ ~Ready)

C2_Witness ==
    /\ HsFinished
    /\ Len(ReplyReads) = 3
    /\ ReplyReads[2].data = <<51>>
    /\ ReplyReads[3].data = <<51>>
    /\ hsErr = "ChecksumFailed"
    /\ pc = "raised"

\* a method has returned or raised, and its transport calls are in log
MethodEnded == pc = "idle" /\ nops > 0

\* C3: a status-returning command whose status read was answered with one
\* byte b returns true if b = 0x55 and false otherwise, and does not raise.
C3_StatusConvention ==
    (/\ MethodEnded
     /\ op.name \in StatusOps
     /\ log # <<>>
     /\ Last(log).site = "reply"
     /\ Len(Last(log).data) = 1) =>
        (err = "none" /\ result = PyBool(Last(log).data[1] = 85))

\* a transport call that is one of the handshake's own sub-steps
HandshakeCall(e) ==
    \/ e.call = "read"
    \/ e.call = "read_EE" /\ e.addr \in {4096, 8192}
    \/ e.call = "write_EE" /\ e.addr = 20481
    \/ e.call = "write" /\ e.data = <<33, 85>>
    \/ e.call = "write" /\ Len(e.data) = 4 /\ e.data[1] = 33 /\ e.data[2] = 86
    \/ e.call = "write" /\ e.data = <<38, 0, 1, 0, 0>>

\* C4: a command that is not a sub-step of the handshake (an opcode frame, an
\* EEPROM access of a public method) has been issued only on a session whose
\* handshake completed successfully; after a failed handshake there is none.
C4_ReadinessGate ==
    \A i \in 1..Len(log) : ~HandshakeCall(log[i]) => Ready

C4_Witness ==
    /\ Ready
    /\ op.name = "send_bytes"
    /\ log # <<>>
    /\ Last(log).call = "write"
    /\ ~HandshakeCall(Last(log))

\* C5: in a method, a frame write comes after at least one read, the call
\* just before it is a read that returned zero bytes, and no write precedes it.
C5_PurgeBeforeWrite ==
    nops > 0 =>
        \A i \in 1..Len(log) :
            log[i].call = "write" =>
                /\ i > 1
                /\ log[i - 1].call = "read"
                /\ log[i - 1].data = <<>>
                /\ \A j \in 1..(i - 1) : log[j].call = "read"

C5_Witness ==
    /\ nops > 0
    /\ Len(log) = 3
    /\ log[1].call = "read" /\ Len(log[1].data) = 1
    /\ log[2].call = "read" /\ log[2].data = <<>>
    /\ log[3].call = "write"

\* C6: every byte a method reads as its response was placed by the device
\* in answer to the frame that method wrote.
C6_NoStaleResponse ==
    nops > 0 =>
        \A i \in 1..Len(log) :
            (log[i].call = "read" /\ log[i].site = "reply") =>
                \A k \in 1..Len(log[i].tags) :
                    \E j \in 1..(i - 1) :
                        log[j].call = "write" /\ log[j].id = log[i].tags[k]

IsPurgeRead(e) == e.call = "read" /\ e.site = "purge"

\* the step of the handshake a log entry belongs to: the reads of one purge
\* loop are one step
HsStep(i) ==
    Cardinality({j \in 1..i :
        ~(j > 1 /\ IsPurgeRead(log[j]) /\ IsPurgeRead(log[j - 1]))})

\* the k-th step of the handshake, as the sequence of the claim gives it
HsStepIs(e, k) ==
    CASE k = 1 -> e.call = "read_EE" /\ e.addr = 4096 /\ e.n = 2
      [] k = 2 -> e.call = "read_EE" /\ e.addr = 8192 /\ e.n = 2
      [] k = 3 -> IsPurgeRead(e)
      [] k = 4 -> e.call = "write" /\ e.data = <<33, 85>>
      [] k = 5 -> e.call = "read" /\ e.site = "reply" /\ e.n = 2
      [] k = 6 -> e.call = "write" /\ Len(e.data) = 4
                    /\ e.data[1] = 33 /\ e.data[2] = 86
      [] k = 7 -> e.call = "read" /\ e.site = "reply" /\ e.n = 1
      [] k = 8 -> e.call = "write_EE" /\ e.addr = 20481 /\ e.data = <<>>
      [] k = 9 -> IsPurgeRead(e)
      [] k = 10 -> e.call = "write" /\ e.data = <<38, 0, 1, 0, 0>>
      [] k = 11 -> e.call = "read" /\ e.site = "reply" /\ e.n = 1
      [] OTHER -> FALSE

\* C7: the transport calls of the handshake are a prefix of the sequence
\* read_EE(0x1000,2); read_EE(0x2000,2); purge; write [21,55]; read 2;
\* write [21,56,t0,t1]; read 1; write_EE(0x5001, empty); purge;
\* write [26,00,01,00,00]; read 1 (each once, a purge being its loop of
\* reads); after a wrong magic byte there is no further call and no mask is
\* stored, and after an authentication reply other than 0x33 no further call.
C7_HandshakeOrder ==
    nops = 0 =>
        /\ \A i \in 1..Len(log) : HsStepIs(log[i], HsStep(i))
        /\ (log # <<>> /\ log[1].data[1] # 51) =>
              /\ Len(log) = 1
              /\ nframes = 0
              /\ write_bitmask = Unset /\ read_bitmask = Unset
        /\ \A i \in 1..Len(log) :
              (HsStep(i) = 7 /\ log[i].data # <<51>>) => Len(log) = i

C7_Witness ==
    /\ nops = 0
    /\ pc = "raised"
    /\ hsErr = "ChecksumFailed"
    /\ Len(log) = 13
    /\ HsStep(13) = 11

\* C8: the frame written after the challenge read r0, r1 is
\* [0x21, 0x56, t0, t1] with ti = (ri XOR 0xFF) XOR 0x33, a byte; 0x00 gives
\* 0xCC, 0xFF gives 0x33, and transforming ti gives ri back.
C8_ChallengeTransform ==
    (nops = 0 /\ pc = "hs_rauth") =>
        LET r == log[Len(log) - 1].data
            f == Last(log).data
        IN  /\ Last(log).call = "write"
            /\ Len(r) = 2
            /\ Len(f) = 4
            /\ f[1] = 33 /\ f[2] = 86
            /\ \A i \in 1..2 :
                /\ f[i + 2] = BitXor(BitXor(r[i], 255), 51)
                /\ f[i + 2] \in Byte
                /\ BitXor(BitXor(f[i + 2], 255), 51) = r[i]
                /\ (r[i] = 0) => (f[i + 2] = 204)
                /\ (r[i] = 255) => (f[i + 2] = 51)

C8_Witness ==
    /\ nops = 0
    /\ pc = "hs_rauth"
    /\ log[Len(log) - 1].data = <<0, 255>>
    /\ Last(log).data = <<33, 86, 204, 51>>

\* C9: send_byte_custom_baud(byte, baudrate) with baudrate >= 1 ends without
\* error having written, as its last transport call and only write, the
\* frame [0x25, 0x03, (1000000 div baudrate) mod 256, byte].
C9_CustomBaudFrame ==
    (/\ MethodEnded
     /\ op.name = "send_byte_custom_baud"
     /\ op.baud >= 1
     /\ op.byte \in Byte) =>
        /\ err = "none"
        /\ log # <<>>
        /\ Last(log).call = "write"
        /\ Last(log).data = <<37, 3, (1000000 \div op.baud) % 256, op.byte>>
        /\ \A i \in 1..(Len(log) - 1) : log[i].call = "read"

\* C10: get_security_num returns the 8 bytes read from EEPROM 0x5000, each
\* XORed with byte 0 of the 2 bytes the handshake read from EEPROM 0x2000;
\* the handshake stores that byte as the write mask.
C10_SecurityNum ==
    /\ (Len(bitmasks) = 2) => (write_bitmask = bitmasks[1])
    /\ (MethodEnded /\ op.name = "get_security_num") =>
        /\ err = "none"
        /\ Len(log) = 1
        /\ log[1].call = "read_EE" /\ log[1].addr = 20480 /\ log[1].n = 8
        /\ result.t = "bytes"
        /\ Len(result.v) = 8
        /\ \A i \in 1..8 : result.v[i] = BitXor(log[1].data[i], bitmasks[1])
        /\ (log[1].data = Zeros(8) /\ bitmasks[1] = 170) =>
              (result.v = [i \in 1..8 |-> 170])

C10_Witness ==
    /\ MethodEnded
    /\ op.name = "get_security_num"
    /\ log[1].data = Zeros(8)
    /\ bitmasks = <<170, 15>>
    /\ result = PyBytes([i \in 1..8 |-> 170])

\* a read whose bytes the caller uses came back with fewer bytes than asked
ShortReply == \E i \in 1..Len(log) :
    log[i].call = "read" /\ log[i].site = "reply" /\ Len(log[i].data) < log[i].n

\* C11: an operation one of whose response reads (handshake challenge, 2;
\* get_version, 2; get_version_str, 1 and then the length byte; a status
\* read, 1) returned fewer bytes than it asked for ends in an error and
\* returns no result.
C11_ShortReadPropagated ==
    /\ (HsFinished /\ ShortReply) => (hsErr # "none" /\ pc = "raised")
    /\ (MethodEnded /\ ShortReply) => (err # "none" /\ result = PyNone)

\* C12: get_voltage makes one transport call, the read of 2 bytes at EEPROM
\* 0x3000, and returns (b[1] + b[0] * 256) / 52.01, the value being in
\* 0..65535 ([0x01, 0x00] gives 256); it writes no frame.
C12_Voltage ==
    (MethodEnded /\ op.name = "get_voltage") =>
        LET b == log[1].data
            value == (256 * b[1]) + b[2]
        IN  /\ err = "none"
            /\ Len(log) = 1
            /\ log[1].call = "read_EE" /\ log[1].addr = 12288 /\ log[1].n = 2
            /\ Len(b) = 2
            /\ value \in 0..65535
            /\ result.t = "float"
            /\ result.v = <<value * 100, 5201>>
            /\ (b = <<1, 0>>) => (result.v = <<25600, 5201>>)

C12_Witness ==
    /\ MethodEnded
    /\ op.name = "get_voltage"
    /\ log[1].data = <<1, 0>>
    /\ result = PyFloat(25600, 5201)

PurgePcs == {"hs_purge1", "hs_purge2", "op_purge"}

\* C13: a purge (the device still owing at most finitely many bytes)
\* eventually ends, and it ends with nothing pending, so that a read(1)
\* right after it returns zero bytes; it ends only on a read that returned
\* zero bytes, and no frame is written while it runs, so a transport that
\* never returns a zero-length read keeps it from ending and the frame from
\* being written.
C13_PurgeTermination ==
    /\ (pc = "op_purge") ~> (pc = "op_write" /\ rx = <<>>)
    /\ (pc = "hs_purge1") ~> (pc = "hs_wchal" /\ rx = <<>>)
    /\ (pc = "hs_purge2") ~> (pc = "hs_wcks" /\ rx = <<>>)
    /\ [][(pc \in PurgePcs /\ pc' # pc) =>
            /\ rx = <<>> /\ rx' = <<>>
            /\ Len(log') = Len(log) + 1
            /\ log'[Len(log')].call = "read" /\ log'[Len(log')].data = <<>>]_vars
    /\ [][(pc \in PurgePcs) => (nframes' = nframes)]_vars

C13_Witness ==
    /\ pc = "op_write"
    /\ rx = <<>>
    /\ Len(log) = 3
    /\ Len(log[1].data) = 1 /\ Len(log[2].data) = 1 /\ log[3].data = <<>>

\* send_bytes has ended (returned or raised) and no other method has begun
SendBytesEnded == MethodEnded /\ op.name = "send_bytes"

\* C14: send_bytes(data, delay), with delay a byte and len(data) a 16-bit
\* number, writes exactly one frame, [0x25, 0x02, len mod 256, len div 256,
\* delay, ...data], as its last transport call; from then until another
\* method begins nothing is read, so what the device places stays pending.
C14_SendBytesFrame ==
    /\ []((SendBytesEnded /\ op.delay \in Byte /\ Len(op.data) < 65536) =>
            /\ err = "none"
            /\ result = PyNone
            /\ log # <<>>
            /\ Last(log).call = "write"
            /\ Last(log).data =
                 <<37, 2, Len(op.data) % 256, Len(op.data) \div 256, op.delay>>
                 \o op.data
            /\ \A i \in 1..(Len(log) - 1) :
                 log[i].call = "read" /\ log[i].site = "purge")
    /\ [][SendBytesEnded =>
            /\ Len(rx') >= Len(rx)
            /\ SubSeq(rx', 1, Len(rx)) = rx
            /\ (nops' = nops => log' = log)]_vars

C14_Witness ==
    /\ SendBytesEnded
    /\ op.data = Zeros(256) /\ op.delay = 10
    /\ SubSeq(Last(log).data, 1, 5) = <<37, 2, 0, 1, 10>>
    /\ rx # <<>> /\ rx[1].of = Last(log).id

\* C15: the only step that changes write_bitmask or read_bitmask is the
\* handshake's read of EEPROM 0x2000, which stores its byte 0 and byte 1;
\* no method of AMTFlasher, KWPInterface or CANInterface changes either, so
\* on a session they always are the two bytes that read returned.
C15_MasksLearnedOnce ==
    /\ [][(write_bitmask' # write_bitmask \/ read_bitmask' # read_bitmask) =>
            /\ pc = "hs_masks"
            /\ Len(log') = Len(log) + 1
            /\ log'[Len(log')].call = "read_EE"
            /\ log'[Len(log')].addr = 8192
            /\ write_bitmask' = log'[Len(log')].data[1]
            /\ read_bitmask' = log'[Len(log')].data[2]]_vars
    /\ []((Len(bitmasks) = 2) =>
            (write_bitmask = bitmasks[1] /\ read_bitmask = bitmasks[2]))
    /\ []((Len(bitmasks) # 2) =>
            (write_bitmask = Unset /\ read_bitmask = Unset))

C15_Witness ==
    /\ MethodEnded
    /\ nops = MaxOps
    /\ op.name = "send_fast_init"
    /\ bitmasks = <<170, 15>>
    /\ write_bitmask = 170 /\ read_bitmask = 15

\* an argument of the method does not fit its one-byte field of the frame
FieldOverflow ==
    \/ op.name = "set_delay" /\ op.delay > 255
    \/ op.name = "send_byte" /\ op.byte > 255
    \/ op.name = "send_bytes" /\ op.delay > 255
    \/ op.name = "send_fast_init"
         /\ (Len(op.data) > 255 \/ op.delay > 255 \/ op.pulse > 255)

\* C17: set_delay, send_byte, send_bytes or send_fast_init called with an
\* argument that does not fit its one-byte field (send_fast_init also with
\* more than 255 bytes of data) ends in an error, returns nothing and has
\* written nothing: its transport calls are the reads of its purge, which
\* left the input empty.
C17_OverflowWritesNothing ==
    (MethodEnded /\ FieldOverflow) =>
        /\ err = "OverflowError"
        /\ result = PyNone
        /\ log # <<>>
        /\ \A i \in 1..Len(log) :
             log[i].call = "read" /\ log[i].site = "purge"
        /\ \A i \in 1..(Len(log) - 1) : Len(log[i].data) = 1
        /\ Last(log).data = <<>>

C17_Witness ==
    /\ MethodEnded
    /\ op.name = "send_fast_init"
    /\ op.data = Zeros(256) /\ op.delay = 10 /\ op.pulse = 1
    /\ err = "OverflowError"
    /\ Len(log) = 2

\* ---- C16 ----
SecurityEnded == pc = "idle" /\ op.name = "get_security_num"

\* C16: read_mask has no influence.  The second session makes the calls of
\* the first and is given its answers, but for the two bytes it read at EEPROM
\* 0x2000; only what the code computes from a mask is its own.  When it holds
\* the first session's write mask, whatever its read mask, its
\* get_security_num returns what the first session's returns; when its write
\* mask differs, every byte of the result differs; and the masks it holds are
\* bytes 0 and 1 of what it read.
C16_ReadMaskUnused ==
    /\ (SecurityEnded /\ twin.write_bitmask = write_bitmask)
          => PyBytes(twin.security) = result
    /\ (SecurityEnded /\ twin.write_bitmask # write_bitmask)
          => /\ Len(twin.security) = Len(result.v)
             /\ \A i \in 1..Len(result.v) : twin.security[i] # result.v[i]
    /\ Len(twin.bitmasks) = 2
          => /\ twin.write_bitmask = twin.bitmasks[1]
             /\ twin.read_bitmask = twin.bitmasks[2]
    /\ ~SecurityEnded => twin.security = <<>>

C16_Witness ==
    /\ SecurityEnded
    /\ twin.write_bitmask = write_bitmask
    /\ twin.read_bitmask # read_bitmask
    /\ result.t = "bytes"
    /\ result.v # log[1].data
    /\ twin.security = result.v

====
